---- MODULE Spec2Model ----
(***************************************************************************)
(* File-based service discovery (package file): the Discovery engine, its   *)
(* refresh algorithm, its event loop and the timestamp registry.            *)
(*                                                                          *)
(* One Discovery instance runs against a small filesystem.  The engine is   *)
(* modelled at the granularity of its blocking points: every select         *)
(* (channel send racing ctx.Done, the event loop's select) is one state of  *)
(* pc, and the code between two blocking points is one action.              *)
(***************************************************************************)
EXTENDS Integers, Sequences, FiniteSets, TLC

\* ------------------------------------------------------------------ bounds
\* Longest list of target groups a file may hold.
MaxGroups == 2
\* Number of changes the environment makes to the files in one behaviour.
MaxEdits == 1
\* Number of refreshes one behaviour starts (the initial one included).
MaxScans == 2
\* Number of writes and deletes the instances make on their timestamp maps in
\* one behaviour of the registry.
MaxOps == 3

\* ---------------------------------------------------------------- universe
\* The files that may exist, in the lexical order filepath.Glob returns them.
FileOrder == <<"d/a.json", "d/b.yml">>
Files == {FileOrder[i] : i \in 1..Len(FileOrder)}

\* Configurations that passed SDConfig.UnmarshalYAML: one literal pattern,
\* two patterns that expand to the same file, two patterns on different
\* files, and a pattern filepath.Glob rejects as malformed.
Configs ==
    { <<"d/a.json">>,
      <<"d/a.json", "d/*.json">>,
      <<"d/*.json", "d/b.yml">>,
      <<"[.json", "d/b.yml">> }

\* The characters of each configured pattern.
Chars(p) ==
    CASE p = "d/a.json" -> <<"d", "/", "a", ".", "j", "s", "o", "n">>
      [] p = "d/*.json" -> <<"d", "/", "*", ".", "j", "s", "o", "n">>
      [] p = "d/b.yml"  -> <<"d", "/", "b", ".", "y", "m", "l">>
      [] p = "[.json"   -> <<"[", ".", "j", "s", "o", "n">>
      [] p = "d/**.json" -> <<"d", "/", "*", "*", ".", "j", "s", "o", "n">>
      [] p = "d/a.JSON" -> <<"d", "/", "a", ".", "J", "S", "O", "N">>
      [] p = "d/a.txt"  -> <<"d", "/", "a", ".", "t", "x", "t">>
      [] p = "*/a.json" -> <<"*", "/", "a", ".", "j", "s", "o", "n">>

\* The patterns a configuration may name before it is validated, and the
\* lists of them a configuration may carry (SDConfig.Files).
Patterns ==
    {"d/a.json", "d/*.json", "d/b.yml", "[.json", "d/**.json", "d/a.JSON", "d/a.txt",
     "*/a.json"}
MaxFiles == 2
FilesLists == UNION {[1..n -> Patterns] : n \in 0..MaxFiles}

RECURSIVE Join(_)
Join(cs) == IF cs = <<>> THEN "" ELSE Head(cs) \o Join(Tail(cs))

\* ------------------------------------------------------------- Go maps
EmptyMap == [x \in {} |-> 0]
Put(m, k, v) == [x \in (DOMAIN m) \cup {k} |-> IF x = k THEN v ELSE m[x]]
Del(m, k) == [x \in (DOMAIN m) \ {k} |-> m[x]]
\* m[k] of a map[string]int: the zero value when the key is absent.
Count(m, k) == IF k \in DOMAIN m THEN m[k] ELSE 0

\* ------------------------------------------------------- target groups
fileSDFilepathLabel == "__meta_filepath"

\* A nil map, a nil pointer: the empty option; a value v: <<v>>.
Nil == <<>>
Some(v) == <<v>>

\* A group as the decoder leaves it: no source, labels as written in the file.
RawGroup(labels) == [Source |-> "", Labels |-> labels, Targets |-> <<"h:1">>]
\* The groups written in a file: the JSON file's groups have no labels, the
\* YAML file's groups have two, one of them a stale provenance label.
GroupOf(f) ==
    IF f = "d/a.json" THEN RawGroup(Nil)
    ELSE RawGroup(Some([k \in {"job", fileSDFilepathLabel} |->
                           IF k = "job" THEN "x" ELSE "stale"]))
\* The decoded lists a file may hold: up to MaxGroups groups, or some groups
\* followed by a null element.
GroupLists(f) == { [i \in 1..k |-> Some(GroupOf(f))] : k \in 0..MaxGroups }
Lists(f) ==
    GroupLists(f) \cup {Append(l, Nil) : l \in {g \in GroupLists(f) : Len(g) < MaxGroups}}

\* What a path holds: nothing, a file that cannot be read or decoded, or a
\* file that decodes to a list.  mtime is the time of its last change.
Absent == [exists |-> FALSE, ok |-> FALSE, list |-> <<>>, mtime |-> 0]
Unreadable(t) == [exists |-> TRUE, ok |-> FALSE, list |-> <<>>, mtime |-> t]
Readable(l, t) == [exists |-> TRUE, ok |-> TRUE, list |-> l, mtime |-> t]
\* What a change at time t may leave at a path.  The JSON file takes every
\* shape; the YAML file is there or not, with one group.
Contents(f, t) ==
    IF f = "d/a.json"
    THEN {Absent, Unreadable(t)} \cup {Readable(l, t) : l \in Lists(f)}
    ELSE {Absent, Readable(<<Some(GroupOf(f))>>, t)}

\* fileSource returns a source ID for the i-th target group in the file.
fileSource(filename, i) == filename \o ":" \o ToString(i)

\* The tombstone of line 342: a group with a source and nothing else.
Tombstone(f, i) == [Source |-> fileSource(f, i), Labels |-> Nil, Targets |-> <<>>]
IsTombstone(b) == Len(b) = 1 /\ b[1].Labels = Nil /\ b[1].Targets = <<>>

VARIABLES
    paths,        \* d.paths
    disk,         \* the files on disk
    edits,        \* changes made to the files so far (the clock of mtime)
    cancelled,    \* ctx.Done() is closed
    consumerReady,\* a receiver is waiting on ch
    pc,           \* where Run stands
    watcher,      \* d.watcher: "none", "open", "closed"
    watched,      \* directories registered with the watcher
    ticker,       \* "none", "running", "stopped"
    registered,   \* d is in fileSDTimeStamp.discoverers
    timestamps,   \* d.timestamps
    lastRefresh,  \* d.lastRefresh
    errCount,     \* fileSDReadErrorsCount
    todo,         \* refresh: the paths of listFiles still to read
    ref,          \* refresh: ref
    batch,        \* refresh: tgroups, read and waiting to be sent
    rest,         \* refresh: keys of d.lastRefresh still to visit
    tomb,         \* refresh: the tombstone loop, [f, i, n]
    scans,        \* refreshes started
    sent,         \* batches delivered on ch by the current or last refresh,
                  \* each with the path it was made for
    live,         \* sources announced to the consumer and not retired since
    log,          \* reads of the current or last refresh
    start,        \* state at the start of the current or last refresh
    outcome,      \* of the current or last refresh
    prev,         \* the last completed refresh before this one
    event,        \* Run: the notification taken from d.watcher.Events
    drain,        \* stop: the drain goroutine, "none", "running", "exited"
    pending,      \* the watcher holds an event or error nobody received
    \* The timestamp registry and the instances it aggregates.
    discoverers,  \* fileSDTimeStamp.discoverers
    order,        \* the instances in the order they were registered
    stamps,       \* each instance's d.timestamps
    tlock,        \* fileSDTimeStamp.lock
    dlock,        \* each instance's d.lock
    ipc,          \* where each instance's task stands
    iop,          \* the map operation an instance is about to make
    ops,          \* map operations made so far
    cpc,          \* where Collect stands
    iter,         \* Collect: instances the range loop has still to visit
    cur,          \* Collect: the instance being copied
    uniqueFiles,  \* Collect: uniqueFiles
    samples,      \* metrics Collect has sent
    called,       \* Collect has been called
    always,       \* paths a registered instance held all through the merge
    ever,         \* paths a registered instance held at some time in it
    kept,         \* <<i, path>>: registered instance i held it all through
    quiet         \* no instance changed its map since Collect took the lock

aux == <<event, drain, pending>>
reg == <<discoverers, order, stamps, tlock, dlock, ipc, iop, ops, cpc, iter, cur,
         uniqueFiles, samples, called, always, ever, kept, quiet>>
engine == <<paths, disk, edits, cancelled, consumerReady, pc, watcher, watched,
            ticker, registered, timestamps, lastRefresh, errCount, todo, ref,
            batch, rest, tomb, scans, sent, live, log, start, outcome, prev, aux>>
vars == <<engine, reg>>

env == <<paths, disk, edits, cancelled, consumerReady>>
handles == <<watcher, watched, ticker, registered>>
scan == <<todo, ref, batch, rest, tomb>>
ghost == <<scans, sent, live, log, start, outcome, prev>>

\* ------------------------------------------------------ pure functions
\* path.Match on the characters: "*" matches any run of non-separators.
RECURSIVE Match(_, _)
Match(pat, name) ==
    IF pat = <<>> THEN name = <<>>
    ELSE IF Head(pat) = "*"
         THEN \/ Match(Tail(pat), name)
              \/ name # <<>> /\ Head(name) # "/" /\ Match(pat, Tail(name))
         ELSE name # <<>> /\ Head(name) = Head(pat) /\ Match(Tail(pat), Tail(name))

\* filepath.Glob returns ErrBadPattern for an unterminated character class.
GlobBad(p) == \E i \in 1..Len(Chars(p)) : Chars(p)[i] = "["

\* filepath.Glob: the existing files that match, in lexical order.
Glob(p, d) ==
    SelectSeq(FileOrder, LAMBDA f : d[f].exists /\ Match(Chars(p), Chars(f)))

\* listFiles returns a list of all files that match the configured patterns.
RECURSIVE listFrom(_, _)
listFrom(ps, d) ==
    IF ps = <<>> THEN <<>>
    ELSE (IF GlobBad(Head(ps)) THEN <<>> ELSE Glob(Head(ps), d))
         \o listFrom(Tail(ps), d)

listFiles(ps, d) == listFrom(ps, d)

\* strings.LastIndex, 1-based; 0 when ch does not occur (Go: -1).
LastIndex(cs, ch) ==
    LET at == {i \in 1..Len(cs) : cs[i] = ch}
    IN  IF at = {} THEN 0 ELSE CHOOSE i \in at : \A j \in at : j <= i

\* The directory watchFiles registers for pattern p (lines 208-212).
WatchDir(p) ==
    LET idx == LastIndex(Chars(p), "/")
    IN  IF idx > 0 THEN Join(SubSeq(Chars(p), 1, idx - 1)) ELSE "./"

WatchDirs(ps) == {WatchDir(ps[i]) : i \in 1..Len(ps)}

\* strings.ToLower on one character.
ToLower(c) ==
    CASE c = "J" -> "j" [] c = "S" -> "s" [] c = "O" -> "o" [] c = "N" -> "n"
      [] OTHER -> c

\* strings.ToLower(filepath.Ext(filename)).
Ext(filename) ==
    LET cs == Chars(filename)
        dot == LastIndex(cs, ".")
    IN  IF dot = 0 THEN ""
        ELSE Join([k \in 1..(Len(cs) - dot + 1) |-> ToLower(cs[dot + k - 1])])

\* patFileSDName (line 38): ^[^*]*(\*[^/]*)?\.(json|yml|yaml|JSON|YML|YAML)$
\* on the characters cs: a run without "*", then nothing or a "*" followed by
\* a run without "/", then "." and one of the six extensions.
patFileSDName(cs) ==
    \E i \in 0..Len(cs) : \E j \in i..Len(cs) :
        /\ \A k \in 1..i : cs[k] # "*"
        /\ j > i => cs[i + 1] = "*" /\ \A k \in (i + 2)..j : cs[k] # "/"
        /\ j < Len(cs)
        /\ cs[j + 1] = "."
        /\ Join(SubSeq(cs, j + 2, Len(cs))) \in {"json", "yml", "yaml", "JSON", "YML", "YAML"}

\* Lines 394-398: the source and the provenance label of the i-th group.
Stamp(filename, i, tg) ==
    [tg EXCEPT !.Source = fileSource(filename, i),
               !.Labels = Some(Put(IF tg.Labels = Nil THEN EmptyMap ELSE tg.Labels[1],
                                   fileSDFilepathLabel, filename))]

\* readFile: [err, tgroups, mtime].  Open, read, stat and decode fail on a
\* missing or unreadable file; a nil element fails the whole file.  The
\* switch's default case panics; patFileSDName lets no configured pattern
\* reach it, and it stands here as a failed read.
readFile(d, filename) ==
    LET file == d[filename]
        failed == [err |-> TRUE, tgroups |-> <<>>, mtime |-> 0]
    IN  IF ~file.exists \/ ~file.ok THEN failed
        ELSE IF Ext(filename) \notin {".json", ".yml", ".yaml"} THEN failed
        ELSE IF \E i \in 1..Len(file.list) : file.list[i] = Nil THEN failed
        ELSE [err |-> FALSE,
              tgroups |-> [i \in 1..Len(file.list) |->
                              Stamp(filename, i - 1, file.list[i][1])],
              mtime |-> file.mtime]

Sources(b) == {b[i].Source : i \in 1..Len(b)}

\* ------------------------------------------------------- the registry
\* The instances the registry may hold.  In the registry's specification
\* each is reduced to the calls it makes on the registry and on its own
\* timestamp map; in the engine's specification the registry is at rest.
Insts == {1, 2}
\* A sync.RWMutex: the writer holding it (0: none) and the readers holding it.
Free == [w |-> 0, r |-> 0]
NoOp == [kind |-> "none", file |-> "", value |-> 0]

RegIdle ==
    /\ discoverers = {}
    /\ order = <<>>
    /\ stamps = [i \in Insts |-> EmptyMap]
    /\ tlock = Free
    /\ dlock = [i \in Insts |-> Free]
    /\ ipc = [i \in Insts |-> "new"]
    /\ iop = [i \in Insts |-> NoOp]
    /\ ops = 0
    /\ cpc = "idle"
    /\ iter = {}
    /\ cur = 0
    /\ uniqueFiles = EmptyMap
    /\ samples = <<>>
    /\ called = FALSE
    /\ always = {}
    /\ ever = {}
    /\ kept = {}
    /\ quiet = TRUE

\* ------------------------------------------------------------------ Init
NoEvent == [name |-> "", op |-> {}]
NoTomb == [f |-> "", i |-> 0, n |-> 0]
NoStart == [base |-> EmptyMap, ts |-> EmptyMap, errs |-> 0, files |-> <<>>,
            changed |-> FALSE]
NoPrev == [valid |-> FALSE, sent |-> <<>>, base |-> EmptyMap, changed |-> FALSE]

\* The files a configuration can ever enumerate.
Matchable == {f \in Files : \E i \in 1..Len(paths) :
                  ~GlobBad(paths[i]) /\ Match(Chars(paths[i]), Chars(f))}

\* The state NewDiscovery leaves (lines 177-184), on whatever files exist.
Init ==
    /\ paths \in Configs
    /\ disk \in {d \in [Files -> UNION {Contents(f, 0) : f \in Files}] :
                   \A f \in Files : d[f] \in Contents(f, 0)
                                      /\ (f \notin Matchable => d[f] = Absent)}
    /\ edits = 0
    /\ cancelled = FALSE
    /\ consumerReady = FALSE
    /\ pc = "Starting"
    /\ watcher = "none"
    /\ watched = {}
    /\ ticker = "none"
    /\ registered = TRUE
    /\ timestamps = EmptyMap
    /\ lastRefresh = EmptyMap
    /\ errCount = 0
    /\ todo = <<>>
    /\ ref = EmptyMap
    /\ batch = <<>>
    /\ rest = {}
    /\ tomb = NoTomb
    /\ scans = 0
    /\ sent = <<>>
    /\ live = {}
    /\ log = <<>>
    /\ start = NoStart
    /\ outcome = "none"
    /\ prev = NoPrev
    /\ event = NoEvent
    /\ drain = "none"
    /\ pending = FALSE
    /\ RegIdle

\* ----------------------------------------------------------- environment
\* A file is created, rewritten, corrupted or deleted.  The engine looks at
\* the disk only in listFiles and readFile, so a change is taken where the
\* next engine step is the one that sees it: any file before listFiles, the
\* file about to be read before readFile.
Edit ==
    /\ edits < MaxEdits
    /\ (pc = "loop" /\ scans < MaxScans) \/ (pc = "scan" /\ todo # <<>>)
    /\ \E f \in (IF pc = "scan" THEN {Head(todo)} ELSE Matchable) :
       \E c \in Contents(f, edits + 1) :
          /\ c.exists \/ disk[f].exists
          /\ disk' = [disk EXCEPT ![f] = c]
    /\ edits' = edits + 1
    /\ start' = [start EXCEPT !.changed = TRUE]
    /\ prev' = [prev EXCEPT !.changed = TRUE]
    /\ UNCHANGED <<reg, aux, paths, cancelled, consumerReady, pc, handles, timestamps,
                   lastRefresh, errCount, scan, scans, sent, live, log, outcome>>

\* The context is cancelled.  The engine looks at ctx only in its selects,
\* so the cancellation is taken before Run starts or where a select waits.
Cancel ==
    /\ ~cancelled
    /\ pc \in {"Starting", "sendFile", "sendTomb", "loop"}
    /\ cancelled' = TRUE
    /\ UNCHANGED <<reg, aux, paths, disk, edits, consumerReady, pc, handles, timestamps,
                   lastRefresh, errCount, scan, ghost>>

\* The consumer starts or stops waiting on the channel; it matters only
\* while the engine stands at a send.  A delivery takes the waiting receiver.
Consumer ==
    /\ pc \in {"sendFile", "sendTomb"}
    /\ consumerReady' = ~consumerReady
    /\ UNCHANGED <<reg, aux, paths, disk, edits, cancelled, pc, handles, timestamps,
                   lastRefresh, errCount, scan, ghost>>

\* ---------------------------------------------------------------- refresh
\* writeTimestamp and deleteTimestamp (lines 268-278).
writeTimestamp(ts, filename, timestamp) == Put(ts, filename, timestamp)
\* A deleteTimestamp that leaves the entry in place.
deleteTimestampKeeps(ts, filename) == ts
deleteTimestamp(ts, filename) == Del(ts, filename)

\* Entry of refresh (lines 311-316): ref is empty and listFiles is expanded.
StartRefresh ==
    /\ todo' = listFiles(paths, disk)
    /\ ref' = EmptyMap
    /\ batch' = <<>>
    /\ rest' = DOMAIN lastRefresh
    /\ tomb' = NoTomb
    /\ scans' = scans + 1
    /\ sent' = <<>>
    /\ log' = <<>>
    /\ start' = [base |-> lastRefresh, ts |-> timestamps, errs |-> errCount,
                 files |-> listFiles(paths, disk), changed |-> FALSE]
    /\ outcome' = "running"
    /\ prev' = IF outcome = "completed"
               THEN [valid |-> TRUE, sent |-> sent, base |-> lastRefresh,
                     changed |-> start.changed]
               ELSE prev
    /\ pc' = "scan"

\* refresh returns to Run: after the first refresh the ticker is created.
Return(how) ==
    /\ pc' = "loop"
    /\ outcome' = how
    /\ ticker' = IF ticker = "none" THEN "running" ELSE ticker
    /\ todo' = <<>>
    /\ ref' = EmptyMap
    /\ batch' = <<>>
    /\ rest' = {}
    /\ tomb' = NoTomb

\* readFile fails (lines 317-325).
ReadFileError ==
    /\ pc = "scan" /\ todo # <<>>
    /\ LET p == Head(todo) IN
         /\ readFile(disk, p).err
         /\ errCount' = errCount + 1
         /\ ref' = Put(ref, p, Count(lastRefresh, p))
         /\ log' = Append(log, [path |-> p, err |-> TRUE, n |-> 0, mtime |-> 0])
    /\ todo' = Tail(todo)
    /\ UNCHANGED <<reg, aux, env, pc, handles, timestamps, lastRefresh, batch, rest, tomb,
                   scans, sent, live, start, outcome, prev>>

\* readFile succeeds and writes the timestamp (lines 317, 388-403).
ReadFileOk ==
    /\ pc = "scan" /\ todo # <<>>
    /\ LET p == Head(todo)
           r == readFile(disk, p)
       IN /\ ~r.err
          /\ timestamps' = writeTimestamp(timestamps, p, r.mtime)
          /\ batch' = r.tgroups
          /\ log' = Append(log, [path |-> p, err |-> FALSE, n |-> Len(disk[p].list),
                                 mtime |-> disk[p].mtime])
    /\ pc' = "sendFile"
    /\ UNCHANGED <<reg, aux, env, handles, lastRefresh, errCount, todo, ref, rest, tomb,
                   scans, sent, live, start, outcome, prev>>

\* case ch <- tgroups (lines 327, 332).
SendFile ==
    /\ pc = "sendFile"
    /\ consumerReady
    /\ sent' = Append(sent, [from |-> Head(todo), groups |-> batch])
    /\ live' = live \cup Sources(batch)
    /\ ref' = Put(ref, Head(todo), Len(batch))
    /\ todo' = Tail(todo)
    /\ batch' = <<>>
    /\ pc' = "scan"
    /\ consumerReady' = FALSE
    /\ UNCHANGED <<reg, aux, paths, disk, edits, cancelled, handles, timestamps, lastRefresh,
                   errCount, rest, tomb, scans, log, start, outcome, prev>>

\* The same select with "break" for "return": the send is given up and the
\* refresh goes on.
AbortFileContinues ==
    /\ pc = "sendFile"
    /\ cancelled
    /\ ref' = Put(ref, Head(todo), Len(batch))
    /\ todo' = Tail(todo)
    /\ batch' = <<>>
    /\ pc' = "scan"
    /\ UNCHANGED <<reg, aux, env, handles, timestamps, lastRefresh, errCount, rest, tomb,
                   ghost>>

\* A plain send, with no case for ctx.Done().
AbortFileBlocks ==
    /\ pc = "sendFile"
    /\ cancelled
    /\ FALSE
    /\ UNCHANGED vars

\* case <-ctx.Done() of the file send (lines 328-329).
AbortFile ==
    /\ pc = "sendFile"
    /\ cancelled
    /\ Return("aborted")
    /\ UNCHANGED <<reg, aux, env, watcher, watched, registered, timestamps, lastRefresh,
                   errCount, scans, sent, live, log, start, prev>>

\* A lookup that finds nothing.
LookupMissing(r, f) == [ok |-> FALSE, m |-> 0]
\* m, ok := ref[f] (line 336).
Lookup(r, f) == [ok |-> f \in DOMAIN r, m |-> Count(r, f)]

\* The test without its second half.
VanishedOnly(ok, n, m) == ~ok
\* !ok || n > m (line 337).
Vanished(ok, n, m) == ~ok \/ n > m

\* One iteration of the loop over d.lastRefresh (lines 335-340), in the
\* order Go's map iteration happens to take.
Diff ==
    /\ pc = "scan" /\ todo = <<>> /\ rest # {}
    /\ \E f \in rest :
         LET n == lastRefresh[f]
             ok == Lookup(ref, f).ok
             m == Lookup(ref, f).m
         IN  /\ rest' = rest \ {f}
             /\ IF Vanished(ok, n, m)
                THEN /\ timestamps' = deleteTimestamp(timestamps, f)
                     /\ IF m < n
                        THEN pc' = "sendTomb" /\ tomb' = [f |-> f, i |-> m, n |-> n]
                        ELSE UNCHANGED <<pc, tomb>>
                ELSE UNCHANGED <<timestamps, pc, tomb>>
    /\ UNCHANGED <<reg, aux, env, handles, lastRefresh, errCount, todo, ref, batch, ghost>>

\* case ch <- tombstone (lines 340-342).
SendTomb ==
    /\ pc = "sendTomb"
    /\ consumerReady
    /\ sent' = Append(sent, [from |-> tomb.f, groups |-> <<Tombstone(tomb.f, tomb.i)>>])
    /\ live' = live \ {fileSource(tomb.f, tomb.i)}
    /\ IF tomb.i + 1 < tomb.n
       THEN tomb' = [tomb EXCEPT !.i = @ + 1] /\ pc' = pc
       ELSE tomb' = NoTomb /\ pc' = "scan"
    /\ consumerReady' = FALSE
    /\ UNCHANGED <<reg, aux, paths, disk, edits, cancelled, handles, timestamps, lastRefresh,
                   errCount, todo, ref, batch, rest, scans, log, start, outcome, prev>>

\* An abort at the tombstone send that keeps the counts gathered so far.
AbortTombCommits ==
    /\ pc = "sendTomb"
    /\ cancelled
    /\ lastRefresh' = ref
    /\ Return("aborted")
    /\ UNCHANGED <<reg, aux, env, watcher, watched, registered, timestamps,
                   errCount, scans, sent, live, log, start, prev>>

\* case <-ctx.Done() of the tombstone send (lines 343-344).
AbortTomb ==
    /\ pc = "sendTomb"
    /\ cancelled
    /\ Return("aborted")
    /\ UNCHANGED <<reg, aux, env, watcher, watched, registered, timestamps, lastRefresh,
                   errCount, scans, sent, live, log, start, prev>>

\* d.lastRefresh = ref; d.watchFiles() (lines 349-351).  Each watcher.Add
\* succeeds or fails.
Commit ==
    /\ pc = "scan" /\ todo = <<>> /\ rest = {}
    /\ lastRefresh' = ref
    /\ \E added \in SUBSET WatchDirs(paths) : watched' = watched \cup added
    /\ Return("completed")
    /\ UNCHANGED <<reg, aux, env, watcher, registered, timestamps, errCount, scans, sent,
                   live, log, start, prev>>

\* -------------------------------------------------------------------- Run
\* A Run that goes on to its first refresh although NewWatcher failed.
NewWatcherFailsOn ==
    /\ pc = "Starting"
    /\ StartRefresh
    /\ UNCHANGED <<reg, aux, env, handles, timestamps, lastRefresh, errCount, live>>

\* fsnotify.NewWatcher fails (lines 221-225).
NewWatcherFails ==
    /\ pc = "Starting"
    /\ pc' = "Stopped"
    /\ UNCHANGED <<reg, aux, env, handles, timestamps, lastRefresh, errCount, scan, ghost>>

\* A Run that starts its ticker and enters the loop without the first refresh.
RunStartSkips ==
    /\ pc = "Starting"
    /\ watcher' = "open"
    /\ ticker' = "running"
    /\ pc' = "loop"
    /\ UNCHANGED <<reg, aux, env, watched, registered, timestamps, lastRefresh,
                   errCount, scan, ghost>>

\* The watcher is acquired and the first refresh starts (lines 226-229).
RunStart ==
    /\ pc = "Starting"
    /\ watcher' = "open"
    /\ StartRefresh
    /\ UNCHANGED <<reg, aux, env, watched, ticker, registered, timestamps, lastRefresh,
                   errCount, live>>

\* case <-ctx.Done(): return; the deferred ticker.Stop runs (lines 236-237).
LoopDone ==
    /\ pc = "loop"
    /\ cancelled
    /\ pc' = "stop"
    /\ ticker' = "stopped"
    /\ pending' \in BOOLEAN
    /\ UNCHANGED <<reg, event, drain, env, watcher, watched, registered, timestamps, lastRefresh,
                   errCount, scan, ghost>>

Chmod == "Chmod"
EventNames == {"", "d/a.json"}
EventOps == {{}, {Chmod}, {"Write"}, {"Write", Chmod}}
\* A test for the chmod bit being set, whatever else is.
HasChmod(op) == Chmod \in op
\* event.Op ^ fsnotify.Chmod == 0
OnlyChmod(op) == (op \ {Chmod}) \cup ({Chmod} \ op) = {}

\* The two filters of lines 242-248 let the event through.
Rereads(e) == ~(e.name = "") /\ ~OnlyChmod(e.op)

\* case event := <-d.watcher.Events (line 239): a notification is taken.  A
\* named one comes only from a directory the watcher watches.
LoopEvent ==
    /\ pc = "loop"
    /\ \E name \in EventNames, op \in EventOps :
         /\ name # "" => watched # {}
         /\ Rereads([name |-> name, op |-> op]) => scans < MaxScans
         /\ event' = [name |-> name, op |-> op]
    /\ pc' = "event"
    /\ UNCHANGED <<reg, drain, pending, env, handles, timestamps, lastRefresh,
                   errCount, scan, ghost>>

\* The notification is filtered out: break (lines 242-248).
LoopEventIgnored ==
    /\ pc = "event"
    /\ ~Rereads(event)
    /\ pc' = "loop"
    /\ event' = NoEvent
    /\ UNCHANGED <<reg, drain, pending, env, handles, timestamps, lastRefresh,
                   errCount, scan, ghost>>

\* The notification requires rereading: d.refresh (lines 245-253).
LoopEventRefresh ==
    /\ pc = "event"
    /\ Rereads(event)
    /\ StartRefresh
    /\ event' = NoEvent
    /\ UNCHANGED <<reg, drain, pending, env, handles, timestamps, lastRefresh,
                   errCount, live>>

\* case <-ticker.C (lines 255-258).
LoopTick ==
    /\ pc = "loop"
    /\ ticker = "running"
    /\ scans < MaxScans
    /\ StartRefresh
    /\ UNCHANGED <<reg, aux, env, handles, timestamps, lastRefresh, errCount, live>>

\* case err := <-d.watcher.Errors (line 260): an error is taken.
LoopError ==
    /\ pc = "loop"
    /\ pc' = "error"
    /\ UNCHANGED <<reg, aux, env, handles, timestamps, lastRefresh, errCount,
                   scan, ghost>>

\* The error is logged and the loop goes on (lines 261-263).
LoopWatchError ==
    /\ pc = "error"
    /\ pc' = "loop"
    /\ UNCHANGED <<reg, aux, env, handles, timestamps, lastRefresh, errCount,
                   scan, ghost>>

\* A stop that closes the watcher without a drain goroutine.
StopUnregisterOnly ==
    /\ pc = "stop"
    /\ registered' = FALSE
    /\ pc' = "closing"
    /\ UNCHANGED <<reg, aux, env, watcher, watched, ticker, timestamps,
                   lastRefresh, errCount, scan, ghost>>

\* stop: the instance leaves the registry and the drain goroutine is started
\* (lines 282-300).
StopUnregister ==
    /\ pc = "stop"
    /\ registered' = FALSE
    /\ drain' = "running"
    /\ pc' = "closing"
    /\ UNCHANGED <<reg, event, pending, env, watcher, watched, ticker, timestamps,
                   lastRefresh, errCount, scan, ghost>>

\* The drain goroutine receives what the watcher still held (lines 293-295).
Drain ==
    /\ drain = "running"
    /\ pending
    /\ pending' = FALSE
    /\ UNCHANGED <<reg, event, drain, env, pc, handles, timestamps, lastRefresh,
                   errCount, scan, ghost>>

\* d.watcher.Close() returns, which it does once nothing is left undelivered
\* (line 289); stop returns and its deferred close(done) runs (lines 301-306,
\* 285).
StopClose ==
    /\ pc = "closing"
    /\ ~pending
    /\ watcher' = "closed"
    /\ pc' = "Stopped"
    /\ UNCHANGED <<reg, aux, env, watched, ticker, registered, timestamps, lastRefresh,
                   errCount, scan, ghost>>

\* case <-done: return (lines 296-297).
DrainExit ==
    /\ drain = "running"
    /\ pc = "Stopped"
    /\ drain' = "exited"
    /\ UNCHANGED <<reg, event, pending, env, pc, handles, timestamps, lastRefresh,
                   errCount, scan, ghost>>

Engine ==
    \/ NewWatcherFails \/ RunStart
    \/ ReadFileError \/ ReadFileOk \/ SendFile \/ AbortFile
    \/ Diff \/ SendTomb \/ AbortTomb \/ Commit
    \/ LoopDone \/ LoopEvent \/ LoopEventIgnored \/ LoopEventRefresh \/ LoopTick
    \/ LoopError \/ LoopWatchError
    \/ StopUnregister \/ Drain \/ StopClose \/ DrainExit

Next == Edit \/ Cancel \/ Consumer \/ Engine

Spec == Init /\ [][Next]_vars

\* The engine's task is scheduled: code that can run does run, and a select
\* whose cancellation case is ready again and again takes it in the end (Go
\* picks among the ready cases at random).  Nothing is assumed of the
\* consumer, the files, the watcher's events or the cancellation.
Running ==
    \/ ReadFileError \/ ReadFileOk \/ Diff \/ Commit
    \/ AbortFile \/ AbortTomb
    \/ LoopEventIgnored \/ LoopEventRefresh \/ LoopWatchError
    \/ StopUnregister \/ Drain \/ StopClose \/ DrainExit

Fairness == WF_vars(Running) /\ SF_vars(LoopDone)

FairSpec == Spec /\ Fairness


\* ------------------------------------------------------- construction
\* A configuration on its way to an engine.  It is decoded from YAML, or it
\* is an SDConfig value the caller made (DefaultSDConfig of lines 41-43, with
\* no Files, is one); no file exists and nothing runs yet.
ConfInit ==
    /\ paths \in FilesLists
    /\ pc \in {"yaml", "value"}
    /\ registered = FALSE
    /\ disk = [f \in Files |-> Absent]
    /\ edits = 0 /\ cancelled = FALSE /\ consumerReady = FALSE
    /\ watcher = "none" /\ watched = {} /\ ticker = "none"
    /\ timestamps = EmptyMap /\ lastRefresh = EmptyMap /\ errCount = 0
    /\ todo = <<>> /\ ref = EmptyMap /\ batch = <<>> /\ rest = {} /\ tomb = NoTomb
    /\ scans = 0 /\ sent = <<>> /\ live = {} /\ log = <<>>
    /\ start = NoStart /\ outcome = "none" /\ prev = NoPrev
    /\ event = NoEvent /\ drain = "none" /\ pending = FALSE
    /\ RegIdle

\* SDConfig.UnmarshalYAML (lines 53-69): an empty list and a name that
\* patFileSDName does not match are errors.
UnmarshalYAML ==
    /\ pc = "yaml"
    /\ pc' = IF Len(paths) = 0 THEN "ConfigError"
             ELSE IF \E k \in 1..Len(paths) : ~patFileSDName(Chars(paths[k]))
                  THEN "ConfigError"
                  ELSE "value"
    /\ UNCHANGED <<reg, aux, env, handles, timestamps, lastRefresh, errCount, scan, ghost>>

\* NewDiscovery (lines 172-185): the instance is made from conf.Files as they
\* are and added to the registry; there is no error to return.
NewDiscovery ==
    /\ pc = "value"
    /\ registered' = TRUE
    /\ timestamps' = EmptyMap
    /\ pc' = "Starting"
    /\ UNCHANGED <<reg, aux, env, watcher, watched, ticker, lastRefresh, errCount, scan,
                   ghost>>

ConfNext == UnmarshalYAML \/ NewDiscovery

ConfSpec == ConfInit /\ [][ConfNext]_vars

\* ------------------------------------------------- the registry's actions
\* The mtime instance i writes: each instance read its files at another
\* time, and the values tell the instances apart.
StampOf(i) == i

\* The engine at rest: what Init leaves for one configuration and no files.
EngineIdle ==
    /\ paths = <<"d/a.json">>
    /\ disk = [f \in Files |-> Absent]
    /\ edits = 0 /\ cancelled = FALSE /\ consumerReady = FALSE
    /\ pc = "Starting" /\ watcher = "none" /\ watched = {} /\ ticker = "none"
    /\ registered = TRUE
    /\ timestamps = EmptyMap /\ lastRefresh = EmptyMap /\ errCount = 0
    /\ todo = <<>> /\ ref = EmptyMap /\ batch = <<>> /\ rest = {} /\ tomb = NoTomb
    /\ scans = 0 /\ sent = <<>> /\ live = {} /\ log = <<>>
    /\ start = NoStart /\ outcome = "none" /\ prev = NoPrev
    /\ event = NoEvent /\ drain = "none" /\ pending = FALSE

RegInit == EngineIdle /\ RegIdle

\* sync.RWMutex prefers writers: RLock waits while a writer holds the lock or
\* waits for it.
CanRLockT == tlock.w = 0 /\ \A i \in Insts : ipc[i] \notin {"addWait", "removeWait"}
CanRLockD(i) == dlock[i].w = 0 /\ ipc[i] # "opWait"
CanLock(l) == l.w = 0 /\ l.r = 0

\* The paths the registered instances hold.
Held(ds, st) == UNION {DOMAIN st[i] : i \in ds}
Merging == cpc \in {"range", "copy"}

\* NewDiscovery -> addDiscoverer: t.lock.Lock() (lines 183, 109).
AddLock(i) ==
    /\ ipc[i] \in {"new", "addWait"}
    /\ IF CanLock(tlock)
       THEN tlock' = [tlock EXCEPT !.w = i] /\ ipc' = [ipc EXCEPT ![i] = "adding"]
       ELSE ipc[i] = "new" /\ ipc' = [ipc EXCEPT ![i] = "addWait"] /\ tlock' = tlock
    /\ UNCHANGED <<engine, discoverers, order, stamps, dlock, iop, ops, cpc, iter,
                   cur, uniqueFiles, samples, called, always, ever, kept, quiet>>

\* t.discoverers[disc] = struct{}{}; t.lock.Unlock() (lines 110-111).
AddUnlock(i) ==
    /\ ipc[i] = "adding"
    /\ discoverers' = discoverers \cup {i}
    /\ order' = Append(order, i)
    /\ tlock' = Free
    /\ ipc' = [ipc EXCEPT ![i] = "run"]
    /\ UNCHANGED <<engine, stamps, dlock, iop, ops, cpc, iter, cur, uniqueFiles,
                   samples, called, always, ever, kept, quiet>>

\* The instance's refresh called writeTimestamp or deleteTimestamp:
\* d.lock.Lock() (lines 269, 275).
OpLock(i) ==
    /\ ipc[i] \in {"run", "opWait"}
    /\ IF ipc[i] = "run"
       THEN /\ ops < MaxOps
            /\ ops' = ops + 1
            /\ \E f \in Files :
                 \/ iop' = [iop EXCEPT ![i] = [kind |-> "write", file |-> f,
                                               value |-> StampOf(i)]]
                 \/ iop' = [iop EXCEPT ![i] = [kind |-> "delete", file |-> f, value |-> 0]]
       ELSE UNCHANGED <<ops, iop>>
    /\ IF CanLock(dlock[i])
       THEN /\ dlock' = [dlock EXCEPT ![i] = [@ EXCEPT !.w = i]]
            /\ ipc' = [ipc EXCEPT ![i] = "locked"]
       ELSE /\ ipc[i] = "run"
            /\ ipc' = [ipc EXCEPT ![i] = "opWait"]
            /\ dlock' = dlock
    /\ UNCHANGED <<engine, discoverers, order, stamps, tlock, cpc, iter, cur,
                   uniqueFiles, samples, called, always, ever, kept, quiet>>

\* The one map operation and d.lock.Unlock() (lines 270-271, 276-277); the
\* refresh then goes on to its send.
OpUnlock(i) ==
    /\ ipc[i] = "locked"
    /\ stamps' = [stamps EXCEPT ![i] =
                     IF iop[i].kind = "write"
                     THEN writeTimestamp(@, iop[i].file, iop[i].value)
                     ELSE deleteTimestamp(@, iop[i].file)]
    /\ dlock' = [dlock EXCEPT ![i] = Free]
    /\ iop' = [iop EXCEPT ![i] = NoOp]
    /\ ipc' = [ipc EXCEPT ![i] = "send"]
    /\ IF Merging
       THEN /\ always' = always \cap Held(discoverers, stamps')
            /\ ever' = ever \cup Held(discoverers, stamps')
            /\ kept' = {e \in kept : e[2] \in DOMAIN stamps'[e[1]]}
            /\ quiet' = FALSE
       ELSE UNCHANGED <<always, ever, kept, quiet>>
    /\ UNCHANGED <<engine, discoverers, order, tlock, ops, cpc, iter, cur,
                   uniqueFiles, samples, called>>

\* The send on ch after the map operation completes (lines 326-330, 341-345).
Deliver(i) ==
    /\ ipc[i] = "send"
    /\ ipc' = [ipc EXCEPT ![i] = "run"]
    /\ UNCHANGED <<engine, discoverers, order, stamps, tlock, dlock, iop, ops, cpc,
                   iter, cur, uniqueFiles, samples, called, always, ever, kept, quiet>>

\* stop -> removeDiscoverer: t.lock.Lock() (lines 287, 115).
RemoveLock(i) ==
    /\ ipc[i] \in {"run", "removeWait"}
    /\ IF CanLock(tlock)
       THEN tlock' = [tlock EXCEPT !.w = i] /\ ipc' = [ipc EXCEPT ![i] = "removing"]
       ELSE ipc[i] = "run" /\ ipc' = [ipc EXCEPT ![i] = "removeWait"] /\ tlock' = tlock
    /\ UNCHANGED <<engine, discoverers, order, stamps, dlock, iop, ops, cpc, iter,
                   cur, uniqueFiles, samples, called, always, ever, kept, quiet>>

\* delete(t.discoverers, disc); t.lock.Unlock() (lines 116-117).
RemoveUnlock(i) ==
    /\ ipc[i] = "removing"
    /\ discoverers' = discoverers \ {i}
    /\ order' = SelectSeq(order, LAMBDA j : j # i)
    /\ tlock' = Free
    /\ ipc' = [ipc EXCEPT ![i] = "stopped"]
    /\ UNCHANGED <<engine, stamps, dlock, iop, ops, cpc, iter, cur, uniqueFiles,
                   samples, called, always, ever, kept, quiet>>

\* A Collect that ranges over every instance ever made, registered or not.
CollectCallAll ==
    /\ cpc = "idle"
    /\ CanRLockT
    /\ called' = TRUE
    /\ tlock' = [tlock EXCEPT !.r = 1]
    /\ iter' = {i \in Insts : ipc[i] # "new"}
    /\ uniqueFiles' = EmptyMap
    /\ samples' = <<>>
    /\ always' = Held(discoverers, stamps)
    /\ ever' = Held(discoverers, stamps)
    /\ kept' = {e \in discoverers \X Files : e[2] \in DOMAIN stamps[e[1]]}
    /\ quiet' = TRUE
    /\ cpc' = "range"
    /\ UNCHANGED <<engine, discoverers, order, stamps, dlock, ipc, iop, ops, cur>>

\* Collect: uniqueFiles is made and t.lock.RLock() taken (lines 88-89).
CollectCall ==
    /\ cpc = "idle"
    /\ CanRLockT
    /\ called' = TRUE
    /\ tlock' = [tlock EXCEPT !.r = 1]
    /\ iter' = discoverers
    /\ uniqueFiles' = EmptyMap
    /\ samples' = <<>>
    /\ always' = Held(discoverers, stamps)
    /\ ever' = Held(discoverers, stamps)
    /\ kept' = {e \in discoverers \X Files : e[2] \in DOMAIN stamps[e[1]]}
    /\ quiet' = TRUE
    /\ cpc' = "range"
    /\ UNCHANGED <<engine, discoverers, order, stamps, dlock, ipc, iop, ops, cur>>

\* for fileSD := range t.discoverers, in the order Go's map iteration
\* happens to take; fileSD.lock.RLock() (lines 90-91).
RangeNext ==
    /\ cpc = "range"
    /\ \E fileSD \in iter :
         /\ CanRLockD(fileSD)
         /\ dlock' = [dlock EXCEPT ![fileSD] = [@ EXCEPT !.r = 1]]
         /\ cur' = fileSD
    /\ cpc' = "copy"
    /\ UNCHANGED <<engine, discoverers, order, stamps, tlock, ipc, iop, ops, iter,
                   uniqueFiles, samples, called, always, ever, kept, quiet>>

\* The instance's entries go into uniqueFiles, over what is there;
\* fileSD.lock.RUnlock() (lines 92-95).
Copy ==
    /\ cpc = "copy"
    /\ uniqueFiles' = [f \in DOMAIN uniqueFiles \cup DOMAIN stamps[cur] |->
                          IF f \in DOMAIN stamps[cur] THEN stamps[cur][f]
                          ELSE uniqueFiles[f]]
    /\ dlock' = [dlock EXCEPT ![cur] = Free]
    /\ iter' = iter \ {cur}
    /\ cur' = 0
    /\ cpc' = "range"
    /\ UNCHANGED <<engine, discoverers, order, stamps, tlock, ipc, iop, ops,
                   samples, called, always, ever, kept, quiet>>

\* A Collect that goes on to send while it holds the registry's read lock.
RangeDoneHolds ==
    /\ cpc = "range"
    /\ iter = {}
    /\ cpc' = "emit"
    /\ UNCHANGED <<engine, discoverers, order, stamps, tlock, dlock, ipc, iop, ops,
                   iter, cur, uniqueFiles, samples, called, always, ever, kept, quiet>>

\* The range is over: t.lock.RUnlock() (line 97).
RangeDone ==
    /\ cpc = "range"
    /\ iter = {}
    /\ tlock' = [tlock EXCEPT !.r = 0]
    /\ cpc' = "emit"
    /\ UNCHANGED <<engine, discoverers, order, stamps, dlock, ipc, iop, ops, iter,
                   cur, uniqueFiles, samples, called, always, ever, kept, quiet>>

Names(ss) == {ss[k].filename : k \in 1..Len(ss)}

\* An Emit that sends the position of the sample instead of the merged value.
EmitPosition ==
    /\ cpc = "emit"
    /\ \E filename \in DOMAIN uniqueFiles \ Names(samples) :
         samples' = Append(samples, [filename |-> filename,
                                     timestamp |-> Len(samples)])
    /\ UNCHANGED <<engine, discoverers, order, stamps, tlock, dlock, ipc, iop, ops,
                   cpc, iter, cur, uniqueFiles, called, always, ever, kept, quiet>>

\* ch <- prometheus.MustNewConstMetric(...) for one entry of uniqueFiles, in
\* the order Go's map iteration happens to take (lines 98-105).
Emit ==
    /\ cpc = "emit"
    /\ \E filename \in DOMAIN uniqueFiles \ Names(samples) :
         samples' = Append(samples, [filename |-> filename,
                                     timestamp |-> uniqueFiles[filename]])
    /\ UNCHANGED <<engine, discoverers, order, stamps, tlock, dlock, ipc, iop, ops,
                   cpc, iter, cur, uniqueFiles, called, always, ever, kept, quiet>>

\* Collect returns.
CollectReturn ==
    /\ cpc = "emit"
    /\ DOMAIN uniqueFiles \subseteq Names(samples)
    /\ cpc' = "idle"
    /\ UNCHANGED <<engine, discoverers, order, stamps, tlock, dlock, ipc, iop, ops,
                   iter, cur, uniqueFiles, samples, called, always, ever, kept, quiet>>

Instance(i) ==
    \/ AddLock(i) \/ AddUnlock(i)
    \/ OpLock(i) \/ OpUnlock(i) \/ Deliver(i)
    \/ RemoveLock(i) \/ RemoveUnlock(i)

Collect == CollectCall \/ RangeNext \/ Copy \/ RangeDone \/ Emit \/ CollectReturn

\* The steps of calls under way: a lock holder's next step, the grant of a
\* lock to a waiter, a send.  Calls that begin are not among them.
Finish ==
    \/ RangeNext \/ Copy \/ RangeDone \/ Emit \/ CollectReturn
    \/ \E i \in Insts :
         \/ AddUnlock(i) \/ OpUnlock(i) \/ Deliver(i) \/ RemoveUnlock(i)
         \/ ipc[i] = "addWait" /\ AddLock(i)
         \/ ipc[i] = "opWait" /\ OpLock(i)
         \/ ipc[i] = "removeWait" /\ RemoveLock(i)

RegNext == Collect \/ \E i \in Insts : Instance(i)

RegSpec == RegInit /\ [][RegNext]_vars

\* ------------------------------------------------------ the last refresh
Completed == outcome = "completed"
\* The batches of s that file reads produced, and how often batch b occurs.
FileBatches(s) == SelectSeq(s, LAMBDA e : ~IsTombstone(e.groups))
Times(s, b) == Cardinality({k \in 1..Len(s) : s[k].groups = b})
\* The sources the baseline stands for.
Baseline == UNION {{fileSource(p, i) : i \in 0..(lastRefresh[p] - 1)} : p \in DOMAIN lastRefresh}
\* The reads of path p in the log, successful or failed, and those of all
\* paths.
Reads(p, err) == {k \in 1..Len(log) : log[k].path = p /\ log[k].err = err}
ReadsOfAll(err) == {k \in 1..Len(log) : log[k].err = err}
Last(S) == CHOOSE k \in S : \A j \in S : j <= k
\* Path p was in the baseline the refresh started from and the refresh left
\* it with fewer groups, or did not enumerate it at all.
Dropped(p) ==
    /\ p \in DOMAIN start.base
    /\ p \notin DOMAIN lastRefresh \/ lastRefresh[p] < start.base[p]

\* C1: after every completed refresh the sources the consumer holds (announced
\* in a file batch and not retired by a tombstone since) are exactly the
\* sources path:0 .. path:baseline[path]-1 of the baseline.
C1_NoGroupLost == Completed => live = Baseline

\* C2: a completed refresh sends, for every path of the baseline it started
\* from with n groups then and m groups now (0 when no longer enumerated),
\* exactly one tombstone batch for each index m..n-1 and none for any other
\* index; every tombstone batch is a single group that holds a source only.
C2_ExactTombstones ==
    Completed =>
        /\ \A f \in DOMAIN start.base : \A i \in 0..MaxGroups :
              Times(sent, <<Tombstone(f, i)>>) =
                  IF Count(lastRefresh, f) <= i /\ i < start.base[f] THEN 1 ELSE 0
        /\ \A k \in 1..Len(sent) :
              IsTombstone(sent[k].groups) =>
                  \E f \in DOMAIN start.base : \E i \in 0..MaxGroups :
                      sent[k].groups = <<Tombstone(f, i)>>

\* A file of two groups shrank to one and the refresh completed.
C2_Witness ==
    /\ Completed
    /\ \E f \in DOMAIN start.base :
          start.base[f] = 2 /\ Count(lastRefresh, f) = 1 /\ Reads(f, FALSE) # {}

\* C3: after a completed refresh a path whose count dropped below the
\* baseline, or that left the enumeration, has no timestamp entry, although
\* a shrunk file was read in that refresh; any other path has the mtime of
\* its last successful read of that refresh, or what it had before it.
C3_Timestamps ==
    Completed =>
        \A p \in Files :
            IF Dropped(p) THEN p \notin DOMAIN timestamps
            ELSE IF Reads(p, FALSE) # {}
                 THEN /\ p \in DOMAIN timestamps
                      /\ timestamps[p] = log[Last(Reads(p, FALSE))].mtime
                 ELSE /\ p \in DOMAIN timestamps <=> p \in DOMAIN start.ts
                      /\ p \in DOMAIN timestamps => timestamps[p] = start.ts[p]

\* A shrunk file was read successfully, which wrote its timestamp, and the
\* completed refresh left no entry for it.
C3_Witness ==
    /\ Completed
    /\ \E p \in DOMAIN lastRefresh :
          /\ Dropped(p)
          /\ Reads(p, FALSE) # {}
          /\ p \in DOMAIN start.ts
          /\ p \notin DOMAIN timestamps

\* C4: when a read of a path fails in a completed refresh, the path's
\* baseline count is what it was before the refresh, no tombstone and no
\* file batch is sent for the path, the error counter has grown by one for
\* each failed read, and every enumerated path was still processed.
C4_FailedReadKeepsBaseline ==
    Completed =>
        /\ \A p \in Files :
              Reads(p, TRUE) # {} =>
                  /\ Count(lastRefresh, p) = Count(start.base, p)
                  /\ \A k \in 1..Len(sent) : sent[k].from # p
        /\ errCount = start.errs + Cardinality({k \in 1..Len(log) : log[k].err})
        /\ [k \in 1..Len(log) |-> log[k].path] = start.files

\* C5: when no file changed since the start of the previous completed
\* refresh, a completed refresh sends no tombstone, sends the file batches
\* the previous one sent and leaves the baseline as the previous one left it.
C5_Idempotent ==
    (Completed /\ prev.valid /\ ~prev.changed) =>
        /\ \A k \in 1..Len(sent) : ~IsTombstone(sent[k].groups)
        /\ FileBatches(sent) = FileBatches(prev.sent)
        /\ lastRefresh = prev.base

\* Two completed refreshes of unchanged files, the second with a batch.
C5_Witness ==
    /\ Completed /\ prev.valid /\ ~prev.changed
    /\ \E k \in 1..Len(sent) : Len(sent[k].groups) = MaxGroups

\* C6: for every successful read of a completed refresh, of a path whose file
\* held n groups, the refresh sent a batch of n groups for that path, the
\* i-th with the source path:i and the provenance label set to the path, and
\* the baseline count of the path is n.
C6_ReadYieldsBatch ==
    Completed =>
        \A k \in ReadsOfAll(FALSE) :
            LET p == log[k].path
                n == log[k].n
            IN  /\ \E j \in 1..Len(sent) :
                      /\ sent[j].from = p
                      /\ Len(sent[j].groups) = n
                      /\ \A i \in 1..n :
                            LET g == sent[j].groups[i]
                            IN  /\ g.Source = fileSource(p, i - 1)
                                /\ g.Labels # Nil
                                /\ g.Labels[1][fileSDFilepathLabel] = p
                /\ Count(lastRefresh, p) = n

\* C7: no two groups sent by one refresh, in file batches or tombstone
\* batches, have the same source.
C7_UniqueSources ==
    /\ \A j \in 1..Len(sent) :
          Cardinality(Sources(sent[j].groups)) = Len(sent[j].groups)
    /\ \A i, j \in 1..Len(sent) :
          i < j => Sources(sent[i].groups) \cap Sources(sent[j].groups) = {}

SendPoints == {"sendFile", "sendTomb"}
Left == {"stop", "closing", "Stopped"}

\* C8 as claimed: once the context is cancelled no batch is delivered.
C8_NoSendAfterCancel == [][cancelled => Len(sent') <= Len(sent)]_vars

\* C8 as amended: once the context is cancelled a batch is delivered only
\* at a send whose consumer is ready; at a send whose consumer is not ready
\* the refresh does nothing but abort, leaving the baseline alone; and once
\* Run has taken the cancellation case no refresh starts and nothing is sent.
C8_SendOnlyIfReady ==
    /\ [][(cancelled /\ Len(sent') > Len(sent)) =>
             (consumerReady /\ pc \in SendPoints)]_vars
    /\ [][(cancelled /\ pc \in SendPoints /\ ~consumerReady
             /\ <<pc, sent, todo, ref, tomb>>' # <<pc, sent, todo, ref, tomb>>) =>
             (pc' = "loop" /\ outcome' = "aborted" /\ sent' = sent
                 /\ lastRefresh' = lastRefresh)]_vars
    /\ [][(pc \in Left) =>
             (sent' = sent /\ scans' = scans /\ (pc' \in Left))]_vars

\* A refresh was aborted at a send while the consumer was not there, after
\* it had delivered a batch.
C8_Witness ==
    /\ cancelled /\ ~consumerReady
    /\ pc = "loop" /\ outcome = "aborted"
    /\ sent # <<>>

\* C9: once the context is cancelled, a Run that has its watcher reaches
\* Stopped with the instance out of the registry and the watcher closed,
\* whatever the consumer, the files and the watcher's events do.
C9_ShutdownNotStarved ==
    (cancelled /\ watcher = "open") ~>
        (pc = "Stopped" /\ ~registered /\ watcher = "closed")

\* Run stopped after a refresh was cut short at a send nobody received.
C9_Witness ==
    /\ pc = "Stopped" /\ cancelled
    /\ ~registered /\ watcher = "closed"
    /\ outcome = "aborted" /\ ~consumerReady

\* ------------------------------------------------------ the last Collect
Collected == called /\ cpc = "idle"

\* C11 as claimed: Collect sends one sample for each path that a registered
\* instance holds, no path twice and no path that only unregistered
\* instances hold, while the instances write and delete entries; a path
\* that some registered instance held at every moment of the call is such
\* a path.
C11_OneSamplePerPath ==
    /\ Len(samples) = Cardinality(Names(samples))
    /\ Names(samples) \subseteq ever
    /\ Collected => always \subseteq Names(samples)

\* C11 as amended: Collect sends no path twice; every path it sends was
\* held by a registered instance at some moment of the merge; and every
\* path that one registered instance held all through the merge is sent.
C11_SamplePerInstanceView ==
    /\ Len(samples) = Cardinality(Names(samples))
    /\ Names(samples) \subseteq ever
    /\ Collected => {e[2] : e \in kept} \subseteq Names(samples)

\* A Collect returned with a sample, after an instance changed its map
\* during the merge, while a stopped instance holds a path that was not sent.
C11_Witness ==
    /\ Collected /\ ~quiet
    /\ samples # <<>>
    /\ \E i \in Insts :
          /\ ipc[i] = "stopped"
          /\ DOMAIN stamps[i] \ Names(samples) # {}

\* The files the configuration enumerates now, and whether each of them reads.
Current == {listFiles(paths, disk)[k] : k \in 1..Len(listFiles(paths, disk))}
AllRead == \A p \in Current : ~readFile(disk, p).err
\* The baseline and the sources the consumer holds are those of the files as
\* they are now.
Reflects ==
    /\ lastRefresh = [p \in Current |-> Len(readFile(disk, p).tgroups)]
    /\ live = UNION {{fileSource(p, i) : i \in 0..(Len(readFile(disk, p).tgroups) - 1)} :
                       p \in Current}

\* C13: without cancellation, a refresh that completes after the files
\* stopped changing, with every enumerated file readable, leaves a baseline
\* and a set of announced sources that reflect the files; the tick brings
\* such a refresh about whatever the watcher delivers.
C13_QuietRefreshReflects ==
    (Completed /\ ~cancelled /\ ~start.changed /\ AllRead) => Reflects

InLoop == pc \in {"loop", "event", "error"}
Tombstones(s) == {k \in 1..Len(s) : IsTombstone(s[k].groups)}

\* C15: once Run holds its watcher the first refresh has started, with no
\* event or tick needed; until that refresh has returned there is no ticker
\* and the loop handles no event, tick or watch error; no second refresh
\* starts before the ticker; and the first refresh, which starts from an
\* empty baseline, sends no tombstone batch.
C15_FirstRefresh ==
    /\ [](watcher # "none" => scans >= 1)
    /\ [](ticker = "none" => scans <= 1 /\ ~InLoop)
    /\ [](ticker # "none" => scans > 1 \/ outcome \in {"completed", "aborted"})
    /\ [](scans = 1 => start.base = EmptyMap /\ Tombstones(sent) = {})
    /\ [][scans' > scans /\ scans >= 1 => ticker = "running" /\ InLoop]_vars

\* The first refresh has sent a batch and returned, and nothing else has
\* happened in the loop yet.
C15_Witness ==
    /\ pc = "loop" /\ scans = 1 /\ Completed
    /\ sent # <<>>
    /\ ticker = "running"

\* What a notification that triggers nothing leaves alone.
Untouched == UNCHANGED <<lastRefresh, timestamps, sent, live, scans, errCount>>

\* C16: the loop answers a notification with a refresh exactly if its path
\* is not empty and its operation is not chmod alone; a notification without
\* a path, a chmod-only notification and a watch error start no refresh and
\* leave baseline, timestamps and output as they are.
C16_RefreshIffRereads ==
    /\ [][(pc = "event") =>
              IF event.name # "" /\ event.op # {Chmod}
              THEN pc' = "scan" /\ scans' = scans + 1
              ELSE pc' = "loop" /\ Untouched]_vars
    /\ [][(pc = "error") => pc' = "loop" /\ Untouched]_vars

\* A notification of a write together with a chmod is in hand, with a
\* baseline and output of an earlier refresh in place.
C16_Witness ==
    /\ pc = "event"
    /\ event.name # "" /\ event.op = {"Write", Chmod}
    /\ lastRefresh # EmptyMap /\ sent # <<>>

\* C17: while a refresh runs and after it was aborted the baseline is the one
\* it started from; the baseline changes only in the step that ends a
\* refresh which read every enumerated file and finished the tombstone loop,
\* and takes the counts of that refresh; an abort registers no watch.
C17_AbortKeepsBaseline ==
    /\ [](outcome \in {"running", "aborted"} => lastRefresh = start.base)
    /\ [][lastRefresh' # lastRefresh =>
              /\ pc = "scan" /\ todo = <<>> /\ rest = {}
              /\ Len(log) = Len(start.files)
              /\ lastRefresh' = ref
              /\ outcome' = "completed"]_vars
    /\ [][outcome' = "aborted" => watched' = watched]_vars

\* A refresh that started from a baseline and delivered a batch was aborted.
C17_Witness ==
    /\ outcome = "aborted"
    /\ start.base # EmptyMap
    /\ sent # <<>>
    /\ \E p \in DOMAIN start.base : \E k \in 1..Len(log) :
          log[k].path = p /\ ~log[k].err /\ log[k].n # start.base[p]

\* Run returned because it got no watcher.
NoWatcher == pc = "Stopped" /\ watcher = "none"

\* C18: a Run that gets no watcher leaves Starting for Stopped in one step
\* and stays there; it has started no refresh, sent nothing, written no
\* timestamp or baseline, started no ticker and taken no event.
C18_NoWatcherNoWork ==
    /\ [](NoWatcher => /\ scans = 0 /\ sent = <<>> /\ live = {}
                        /\ timestamps = EmptyMap /\ lastRefresh = EmptyMap
                        /\ ticker = "none" /\ event = NoEvent /\ outcome = "none")
    /\ [][(pc = "Starting" /\ watcher' = "none") => pc' \in {"Starting", "Stopped"}]_vars
    /\ [][NoWatcher => pc' = "Stopped" /\ scans' = scans]_vars

\* Run returned without a watcher although a configured file was there to
\* be read.
C18_Witness ==
    /\ NoWatcher
    /\ \E f \in Matchable : disk[f].ok

\* C19: the watcher is closed only after the instance left the registry;
\* while Close is under way the drain goroutine runs; Close returns in the
\* end, also when the watcher holds undelivered events or errors; the drain
\* goroutine ends only after Close returned, and then does end.
C19_DrainedClose ==
    /\ [](watcher = "closed" => ~registered)
    /\ [](pc = "closing" => ~registered /\ watcher = "open" /\ drain = "running")
    /\ [](drain = "exited" => watcher = "closed")
    /\ (pc = "closing") ~> (watcher = "closed")
    /\ (watcher = "closed") ~> (drain = "exited")

\* Close is under way with events or errors the loop never took.
C19_Witness ==
    /\ pc = "closing" /\ pending
    /\ ~registered /\ drain = "running"

\* A call on the registry or on an instance's map is under way.
Busy ==
    \/ cpc # "idle"
    \/ \E i \in Insts : ipc[i] \notin {"new", "run", "stopped"}

\* C20: Collect sends with neither the registry's lock nor an instance's
\* lock in its hands; an instance holds its lock for one write or delete of
\* its map and not at a send, and its map changes under its lock only; and
\* whenever a call is under way some call under way can take its next step.
C20_LocksNotHeldAcrossSends ==
    /\ [](cpc \in {"emit", "idle"} => tlock.r = 0 /\ \A i \in Insts : dlock[i].r = 0)
    /\ [](samples # <<>> => cpc \in {"emit", "idle"})
    /\ [](\A i \in Insts : dlock[i].w # 0 <=> ipc[i] = "locked")
    /\ [](\A i \in Insts : ipc[i] = "send" => dlock[i].w = 0 /\ tlock.w # i)
    /\ [][\A i \in Insts :
            stamps'[i] # stamps[i] =>
                /\ dlock[i].w = i /\ dlock'[i].w = 0
                /\ Cardinality((DOMAIN stamps[i] \ DOMAIN stamps'[i])
                                \cup (DOMAIN stamps'[i] \ DOMAIN stamps[i])) <= 1]_vars
    /\ [](Busy => ENABLED Finish)

\* Collect is sending its samples while one instance holds its map's lock and
\* another holds the registry's lock.
C20_Witness ==
    /\ cpc = "emit" /\ samples # <<>>
    /\ \E i, j \in Insts : i # j /\ ipc[i] = "locked" /\ tlock.w = j

\* The conditions under which the specification has a configuration
\* rejected: no pattern, or a pattern that does not end in "." and an accepted
\* extension in whatever case, or that has more than the one "*" of the
\* shape <prefix>(*<suffix>)?.<ext>.
EndsInExtension(cs) ==
    LET dot == LastIndex(cs, ".")
    IN  /\ dot > 0
        /\ Join([k \in 1..(Len(cs) - dot) |-> ToLower(cs[dot + k])]) \in {"json", "yml", "yaml"}
Stars(cs) == Cardinality({k \in 1..Len(cs) : cs[k] = "*"})
Invalid(ps) ==
    \/ Len(ps) = 0
    \/ \E k \in 1..Len(ps) : ~EndsInExtension(Chars(ps[k])) \/ Stars(Chars(ps[k])) > 1

\* C14: no instance is made or registered for a configuration with no
\* pattern or with a pattern of a wrong extension or shape.
C14_InvalidConfigRejected == registered => ~Invalid(paths)

\* The merge of a Collect is complete and no instance changed its map while
\* it ran: the maps are still what they were when Collect took the lock.
Merged == cpc = "range" /\ iter = {} /\ quiet

Holders(p) == {i \in discoverers : p \in DOMAIN stamps[i]}

Collides(p) == \E i, j \in Holders(p) : stamps[i][p] # stamps[j][p]

\* The holder of p that was registered last.
LastRegistered(p) ==
    order[CHOOSE k \in 1..Len(order) :
            /\ order[k] \in Holders(p)
            /\ \A l \in (k + 1)..Len(order) : order[l] \notin Holders(p)]

\* C12 as claimed: when two registered instances hold different timestamps
\* for one path, the value Collect merges and emits for the path is that of
\* the instance registered later.
C12_LaterRegisteredWins ==
    Merged =>
        \A p \in DOMAIN uniqueFiles :
            Collides(p) => uniqueFiles[p] = stamps[LastRegistered(p)][p]

\* C12 as amended: the value merged for a path is that of one of the
\* registered instances holding it, and every sample carries the merged value
\* of its path; which holder wins is not determined by registration order.
C12_SomeHolderWins ==
    /\ Merged =>
          \A p \in DOMAIN uniqueFiles :
              \E i \in Holders(p) : uniqueFiles[p] = stamps[i][p]
    /\ \A k \in 1..Len(samples) :
          /\ samples[k].filename \in DOMAIN uniqueFiles
          /\ samples[k].timestamp = uniqueFiles[samples[k].filename]

\* A merge over two instances registered in the order 1, 2 that hold
\* different values for one path, won by the instance registered first.
C12_Witness ==
    /\ Merged
    /\ \E p \in DOMAIN uniqueFiles :
          /\ Collides(p)
          /\ uniqueFiles[p] # stamps[LastRegistered(p)][p]

\* C10: after a completed refresh the baseline has an entry exactly for the
\* enumerated paths; a path read successfully maps to the number of groups
\* read, a path whose read failed to its previous count.
C10_BaselineIsScan ==
    Completed =>
        /\ DOMAIN lastRefresh = {start.files[k] : k \in 1..Len(start.files)}
        /\ \A k \in 1..Len(log) :
              Count(lastRefresh, log[k].path) =
                  IF log[k].err THEN Count(start.base, log[k].path) ELSE log[k].n

\* C21: an instance whose Run has returned, after cancellation or because it
\* got no watcher, is not in the registry's set of instances.
C21_StoppedUnregistered == pc = "Stopped" => ~registered

====
